---- MODULE Spec2Model ----
(***************************************************************************)
(* A model of the VanillaVal form validator (class VanillaVal): rule       *)
(* tokens are parsed and dispatched to the validators, validateRule        *)
(* collects a field's errors and writes them to the field's error list,    *)
(* validate runs validateRule over the session's rule list, change         *)
(* listeners copy an input's value into its rule, and init replaces the    *)
(* rule list by the caller's.                                              *)
(*                                                                         *)
(* JavaScript strings are TLA+ strings; Char(s, i) is the i-th character.  *)
(* Rule values are strings (what FormData and element.value supply).       *)
(***************************************************************************)
EXTENDS Integers, Sequences, FiniteSets, TLC

\* ------------------------------------------------------------------------
\* Strings

Char(s, i) == SubSeq(s, i, i)

Digits == {"0", "1", "2", "3", "4", "5", "6", "7", "8", "9"}

LowerLetters == "abcdefghijklmnopqrstuvwxyz"

UpperLetters == "ABCDEFGHIJKLMNOPQRSTUVWXYZ"

Lower == {Char(LowerLetters, i) : i \in 1..Len(LowerLetters)}

Upper == {Char(UpperLetters, i) : i \in 1..Len(UpperLetters)}

\* \s of a JavaScript regular expression and the characters trim() removes
\* (the ones a TLA+ string literal can hold).
WhiteSpace == {" ", "\t", "\n", "\r", "\f"}

AllIn(s, set) == \A i \in 1..Len(s) : Char(s, i) \in set

\* The position of the first occurrence of pat in s at or after from; 0 if none.
IndexOf(s, pat, from) ==
    LET hits == {i \in from..(Len(s) - Len(pat) + 1) : SubSeq(s, i, i + Len(pat) - 1) = pat}
    IN  IF hits = {} THEN 0 ELSE CHOOSE i \in hits : \A j \in hits : i <= j

\* String.prototype.split(sep) for a one-character separator.
RECURSIVE Split(_, _)
Split(s, sep) ==
    LET i == IndexOf(s, sep, 1)
    IN  IF i = 0 THEN <<s>>
        ELSE <<SubSeq(s, 1, i - 1)>> \o Split(SubSeq(s, i + 1, Len(s)), sep)

\* String.prototype.trim().
RECURSIVE TrimStart(_)
TrimStart(s) ==
    IF Len(s) > 0 /\ Char(s, 1) \in WhiteSpace THEN TrimStart(Tail(s)) ELSE s

RECURSIVE TrimEnd(_)
TrimEnd(s) ==
    IF Len(s) > 0 /\ Char(s, Len(s)) \in WhiteSpace
    THEN TrimEnd(SubSeq(s, 1, Len(s) - 1)) ELSE s

Trim(s) == TrimEnd(TrimStart(s))

\* String.prototype.toLowerCase() on the ASCII letters.
RECURSIVE ToLowerCase(_)
ToLowerCase(s) ==
    IF s = "" THEN ""
    ELSE LET c == Char(s, 1)
             k == IndexOf(UpperLetters, c, 1)
         IN  (IF k = 0 THEN c ELSE Char(LowerLetters, k)) \o ToLowerCase(Tail(s))

\* String.prototype.replace(pat, rep) with a string pattern: the first
\* occurrence only.
Replace(s, pat, rep) ==
    LET i == IndexOf(s, pat, 1)
    IN  IF i = 0 THEN s
        ELSE SubSeq(s, 1, i - 1) \o rep \o SubSeq(s, i + Len(pat), Len(s))

\* ------------------------------------------------------------------------
\* Numbers: NaN, the two infinities, and the finite decimals m * 10^e.

NaN == [k |-> "NaN", m |-> 0, e |-> 0]

PosInfinity == [k |-> "inf", m |-> 1, e |-> 0]

NegInfinity == [k |-> "inf", m |-> -1, e |-> 0]

Fin(m, e) == [k |-> "fin", m |-> m, e |-> e]

RECURSIVE Pow10(_)
Pow10(n) == IF n <= 0 THEN 1 ELSE 10 * Pow10(n - 1)

\* NumLess as x <= y: a comparison that is not strict.
NumLess_OrEqual(x, y) ==
    IF x.k = "NaN" \/ y.k = "NaN" THEN FALSE
    ELSE IF x.k = "inf" THEN x.m < 0 \/ (y.k = "inf" /\ y.m > 0)
    ELSE IF y.k = "inf" THEN y.m > 0
    ELSE LET lo == IF x.e < y.e THEN x.e ELSE y.e
         IN  x.m * Pow10(x.e - lo) <= y.m * Pow10(y.e - lo)

\* The relational operator x < y of JavaScript on numbers: false when either
\* side is NaN.
NumLess(x, y) ==
    IF x.k = "NaN" \/ y.k = "NaN" THEN FALSE
    ELSE IF x.k = "inf" THEN x.m < 0 /\ ~(y.k = "inf" /\ y.m < 0)
    ELSE IF y.k = "inf" THEN y.m > 0
    ELSE LET lo == IF x.e < y.e THEN x.e ELSE y.e
         IN  x.m * Pow10(x.e - lo) < y.m * Pow10(y.e - lo)

RECURSIVE DigitsValue(_)
DigitsValue(s) ==
    IF s = "" THEN 0
    ELSE 10 * DigitsValue(SubSeq(s, 1, Len(s) - 1))
         + (CHOOSE d \in 0..9 : Char("0123456789", d + 1) = Char(s, Len(s)))

IsDigits(s) == Len(s) > 0 /\ AllIn(s, Digits)

\* The parts of an unsigned decimal literal without exponent, split at its
\* '.': digits, digits., digits.digits or .digits
IsMantissaParts(parts) ==
    \/ Len(parts) = 1 /\ IsDigits(parts[1])
    \/ /\ Len(parts) = 2
       /\ AllIn(parts[1], Digits) /\ AllIn(parts[2], Digits)
       /\ Len(parts[1]) + Len(parts[2]) > 0

\* Its value times 10^exp.
MantissaPartsValue(parts, exp) ==
    IF Len(parts) = 1 THEN Fin(DigitsValue(parts[1]), exp)
    ELSE Fin(DigitsValue(parts[1] \o parts[2]), exp - Len(parts[2]))

\* A signed integer, the exponent of a decimal literal.
IsSignedDigits(s) ==
    IsDigits(IF Len(s) > 0 /\ Char(s, 1) \in {"+", "-"} THEN Tail(s) ELSE s)

SignedDigitsValue(s) ==
    IF Char(s, 1) = "-" THEN 0 - DigitsValue(Tail(s))
    ELSE DigitsValue(IF Char(s, 1) = "+" THEN Tail(s) ELSE s)

\* The decimal literal with mantissa ms and, when hasExp, exponent part es.
DecimalValue(ms, hasExp, es) ==
    IF IsMantissaParts(Split(ms, ".")) /\ (hasExp => IsSignedDigits(es))
    THEN MantissaPartsValue(Split(ms, "."), IF hasExp THEN SignedDigitsValue(es) ELSE 0)
    ELSE NaN

\* An unsigned decimal literal: Infinity, or a mantissa with an optional
\* exponent part, which starts at position x of s (0: no exponent part).
UnsignedValueAt(s, x) ==
    IF s = "Infinity" THEN PosInfinity
    ELSE DecimalValue(IF x = 0 THEN s ELSE SubSeq(s, 1, x - 1), x # 0,
                      SubSeq(s, x + 1, Len(s)))

UnsignedValue(s) == UnsignedValueAt(s, IndexOf(ToLowerCase(s), "e", 1))

Negate(neg, x) == IF neg /\ x.k # "NaN" THEN [x EXCEPT !.m = 0 - x.m] ELSE x

\* The value of the string t, which has no white space around it.
TrimmedNumber(t) ==
    IF t = "" THEN Fin(0, 0)
    ELSE Negate(Char(t, 1) = "-",
                UnsignedValue(IF Char(t, 1) \in {"+", "-"} THEN Tail(t) ELSE t))

\* Number(s) for a string s (StringToNumber): white space is trimmed, the
\* empty string is 0, a decimal literal is its value, anything else is NaN.
\* Hexadecimal, octal and binary literals (0x.., 0o.., 0b..) are left out: no
\* string of the model starts with such a prefix.
Number(s) == TrimmedNumber(Trim(s))

\* ------------------------------------------------------------------------
\* enum MethodNames and enum ErrorMessages

MethodNames ==
    [REQUIRED |-> "required", EMAIL |-> "email", MAX_LENGTH |-> "maxLength",
     MIN_LENGTH |-> "minLength", MAX |-> "max", MIN |-> "min", URL |-> "url",
     MATCHES |-> "matches"]

ErrorMessages ==
    [REQUIRED |-> "[FORM_FIELD] is required",
     EMAIL |-> "[FORM_FIELD] has incorrect format",
     MAX_LENGTH |-> "[FORM_FIELD] is more than maximum length supplied",
     MIN_LENGTH |-> "[FORM_FIELD] is less than minimum length supplied",
     MAX |-> "[FORM_FIELD] is more than maximum number supplied",
     MIN |-> "[FORM_FIELD] is less than minimum number supplied",
     URL |-> "[FORM_FIELD] is not a valid url",
     MATCHES |-> "[FORM_FIELD] has incorrect format"]

\* The messages of the four errors the validator throws.
NoRulesMessage ==
    "No validation rules were set through the constructor; form cannot be validated"

MissingParameterMessage == "No min/max value to check against was passed in"

NotANumberMessage == "The min/max value passed in is not a number"

UnknownRuleMessage(method) == "Validation method (" \o method \o ") was not found"

\* ------------------------------------------------------------------------
\* The validators. A ValidatedResponse is [success |-> TRUE] or
\* [success |-> FALSE, message |-> m].

Success == [success |-> TRUE]

Failure(message) == [success |-> FALSE, message |-> message]

getErrorMessage(formField, errorMessage) ==
    Replace(errorMessage, "[FORM_FIELD]", formField)

required(formField, value) ==
    IF Trim(value) = ""
    THEN Failure(getErrorMessage(formField, ErrorMessages.REQUIRED))
    ELSE Success

\* [^<>()[\]\\.,;:\s@\"] of the email pattern: the characters it excludes.
EmailExcluded ==
    {"<", ">", "(", ")", "[", "]", "\\", ".", ",", ";", ":", "@", "\""} \cup WhiteSpace

\* ([^...]+(\.[^...]+)*) | (\".+\")
EmailLocal(s) ==
    \/ LET atoms == Split(s, ".")
       IN  \A i \in 1..Len(atoms) :
               /\ Len(atoms[i]) > 0
               /\ \A j \in 1..Len(atoms[i]) : Char(atoms[i], j) \notin EmailExcluded
    \/ /\ Len(s) >= 3
       /\ Char(s, 1) = "\"" /\ Char(s, Len(s)) = "\""
       /\ \A j \in 2..(Len(s) - 1) : Char(s, j) \notin {"\n", "\r"}

\* (\[[0-9]{1,3}\.[0-9]{1,3}\.[0-9]{1,3}\.[0-9]{1,3}\]) | (([a-zA-Z\-0-9]+\.)+[a-zA-Z]{2,})
EmailDomain(s) ==
    \/ /\ Len(s) >= 2
       /\ Char(s, 1) = "[" /\ Char(s, Len(s)) = "]"
       /\ LET nums == Split(SubSeq(s, 2, Len(s) - 1), ".")
          IN  /\ Len(nums) = 4
              /\ \A i \in 1..4 : Len(nums[i]) \in 1..3 /\ AllIn(nums[i], Digits)
    \/ LET labels == Split(s, ".")
           n == Len(labels)
       IN  /\ n >= 2
           /\ \A i \in 1..(n - 1) :
                  Len(labels[i]) > 0 /\ AllIn(labels[i], Lower \cup Upper \cup Digits \cup {"-"})
           /\ Len(labels[n]) >= 2 /\ AllIn(labels[n], Lower \cup Upper)

\* rgx.test(value): ^local@domain$
EmailTest(value) ==
    \E i \in 1..Len(value) :
        /\ Char(value, i) = "@"
        /\ EmailLocal(SubSeq(value, 1, i - 1))
        /\ EmailDomain(SubSeq(value, i + 1, Len(value)))

email(formField, value) ==
    IF EmailTest(value) THEN Success
    ELSE Failure(getErrorMessage(formField, ErrorMessages.EMAIL))

maxLength(formField, value, length) ==
    IF NumLess(length, Fin(Len(value), 0))
    THEN Failure(getErrorMessage(formField, ErrorMessages.MAX_LENGTH))
    ELSE Success

minLength(formField, value, length) ==
    IF NumLess(Fin(Len(value), 0), length)
    THEN Failure(getErrorMessage(formField, ErrorMessages.MIN_LENGTH))
    ELSE Success

max(formField, value, max_) ==
    IF NumLess(max_, value)
    THEN Failure(getErrorMessage(formField, ErrorMessages.MAX))
    ELSE Success

min(formField, value, min_) ==
    IF NumLess(value, min_)
    THEN Failure(getErrorMessage(formField, ErrorMessages.MIN))
    ELSE Success

\* [-a-zA-Z0-9@:%._\+~#=] of the url pattern.
UrlChars ==
    Lower \cup Upper \cup Digits \cup {"-", "@", ":", "%", ".", "_", "+", "~", "#", "="}

\* \w of a regular expression.
WordChars == Lower \cup Upper \cup Digits \cup {"_"}

\* regex.test(s) for the url pattern. The pattern is not anchored, its two
\* leading groups are optional and its trailing group may be empty, so it
\* matches exactly when some substring matches
\* [-a-zA-Z0-9@:%._\+~#=]{2,256}\.[a-z]{2,6}\b
UrlTest(s) ==
    \E a \in 1..Len(s), d \in 1..Len(s), k \in 2..6 :
        /\ d - a \in 2..256
        /\ AllIn(SubSeq(s, a, d - 1), UrlChars)
        /\ Char(s, d) = "."
        /\ d + k <= Len(s)
        /\ AllIn(SubSeq(s, d + 1, d + k), Lower)
        /\ (d + k = Len(s) \/ Char(s, d + k + 1) \notin WordChars)

url(formField, value) ==
    IF UrlTest(ToLowerCase(value)) THEN Success
    ELSE Failure(getErrorMessage(formField, ErrorMessages.URL))

\* ------------------------------------------------------------------------
\* The rule parser. A call either returns a value or throws an Error.

Return(v) == [t |-> "return", value |-> v]

Throw(message) == [t |-> "throw", message |-> message]

\* RejectNaN cutting the bound down to a whole number (parseInt for Number).
RejectNaN_Truncates(minMaxValue) ==
    IF minMaxValue.k = "NaN" THEN Throw(NotANumberMessage)
    ELSE IF minMaxValue.k = "fin" /\ minMaxValue.e < 0
    THEN Return(Fin(minMaxValue.m \div Pow10(0 - minMaxValue.e), 0))
    ELSE Return(minMaxValue)

\* RejectNaN letting NaN through as the bound.
RejectNaN_AcceptsNaN(minMaxValue) == Return(minMaxValue)

\* The number minMaxValue, unless it is NaN.
RejectNaN(minMaxValue) ==
    IF minMaxValue.k = "NaN" THEN Throw(NotANumberMessage) ELSE Return(minMaxValue)

\* validateMinMaxValue(minMax): hasParam is FALSE for minMax undefined.
validateMinMaxValue(hasParam, minMax) ==
    IF ~hasParam \/ minMax = "" THEN Throw(MissingParameterMessage)
    ELSE RejectNaN(Number(minMax))

\* ------------------------------------------------------------------------
\* validateRule and validate. A ValidationRule is
\* [formField |-> name, value |-> string, rules |-> sequence of tokens].
\* The document's error elements are a function from field names to
\* [tag |-> "ul" or another tag, items |-> the texts of its li children]:
\* the element carrying the class vval-<name>-errors, if there is one.

\* The validator called with the bound length, unless validateMinMaxValue
\* threw.
WithLength(length, response) == IF length.t = "throw" THEN length ELSE Return(response)

\* MethodResponse with its default arm passing the token over instead of
\* throwing.
MethodResponse_SkipsUnknown(formField, value, numberValue, method, length) ==
    CASE method = MethodNames.REQUIRED -> Return(required(formField, value))
      [] method = MethodNames.EMAIL -> Return(email(formField, value))
      [] method = MethodNames.MAX_LENGTH ->
            WithLength(length, maxLength(formField, value, length.value))
      [] method = MethodNames.MIN_LENGTH ->
            WithLength(length, minLength(formField, value, length.value))
      [] method = MethodNames.MAX ->
            WithLength(length, max(formField, numberValue, length.value))
      [] method = MethodNames.MIN ->
            WithLength(length, min(formField, numberValue, length.value))
      [] method = MethodNames.URL -> Return(url(formField, value))
      [] OTHER -> Return(Success)

\* The switch of validateRule on method: the token's ValidatedResponse, or
\* the Error thrown. length is what validateMinMaxValue(length) gives and
\* numberValue is Number(validationRule.value).
MethodResponse(formField, value, numberValue, method, length) ==
    CASE method = MethodNames.REQUIRED -> Return(required(formField, value))
      [] method = MethodNames.EMAIL -> Return(email(formField, value))
      [] method = MethodNames.MAX_LENGTH ->
            WithLength(length, maxLength(formField, value, length.value))
      [] method = MethodNames.MIN_LENGTH ->
            WithLength(length, minLength(formField, value, length.value))
      [] method = MethodNames.MAX ->
            WithLength(length, max(formField, numberValue, length.value))
      [] method = MethodNames.MIN ->
            WithLength(length, min(formField, numberValue, length.value))
      [] method = MethodNames.URL -> Return(url(formField, value))
      [] OTHER -> Throw(UnknownRuleMessage(method))

\* const [method, length] = r.split(':') on the parts of the token: the
\* first two parts; length is undefined when the token has no ':'.
PartsResponse(validationRule, parts) ==
    MethodResponse(validationRule.formField, validationRule.value,
                   Number(validationRule.value), parts[1],
                   validateMinMaxValue(Len(parts) >= 2,
                                       IF Len(parts) >= 2 THEN parts[2] ELSE ""))

\* The body of the forEach callback of validateRule up to the end of its
\* switch, for the token r.
TokenResponse(validationRule, r) == PartsResponse(validationRule, Split(r, ":"))

\* validationRule.rules.forEach(...) from token i on, errorsForRule being
\* errs so far: the errors of the rule, or the Error the first bad token throws.
RECURSIVE RuleErrorsFrom(_, _, _)
RECURSIVE RuleErrorsAfter(_, _, _, _)
RuleErrorsFrom(validationRule, i, errs) ==
    IF i > Len(validationRule.rules) THEN Return(errs)
    ELSE RuleErrorsAfter(validationRule, i, errs,
                         TokenResponse(validationRule, validationRule.rules[i]))

\* RuleErrorsAfter leaving the forEach with the first message pushed (an
\* early exit after the first failing token).
RuleErrorsAfter_StopsAtFirst(validationRule, i, errs, response) ==
    IF response.t = "throw" THEN response
    ELSE IF response.value.success
    THEN RuleErrorsFrom(validationRule, i + 1, errs)
    ELSE Return(Append(errs, response.value.message))

\* The rest of the callback for token i, whose switch gave response: the
\* message of a failed response is pushed.
RuleErrorsAfter(validationRule, i, errs, response) ==
    IF response.t = "throw" THEN response
    ELSE RuleErrorsFrom(validationRule, i + 1,
             IF response.value.success THEN errs
             ELSE Append(errs, response.value.message))

RuleErrors(validationRule) == RuleErrorsFrom(validationRule, 1, <<>>)

\* HasErrorList for the selector `.vval-${formField}-errors`: an element of
\* any type that carries the class.
HasErrorList_AnyTag(lists, formField) ==
    formField \in DOMAIN lists

\* document.querySelector(`ul.vval-${formField}-errors`) finds an element.
HasErrorList(lists, formField) ==
    formField \in DOMAIN lists /\ lists[formField].tag = "ul"

\* WriteErrorList without errorList.innerHTML = '': the items are appended
\* to those the element already has.
WriteErrorList_Appends(lists, formField, errors) ==
    [lists EXCEPT ![formField].items = @ \o errors]

\* errorList.innerHTML = '' and one li appended per error.
WriteErrorList(lists, formField, errors) ==
    [lists EXCEPT ![formField].items = errors]

\* validateRule after its forEach, which gave errorsForRule:
\* [outcome |-> what the call returns or throws, lists |-> the error elements
\* after it, warned |-> the fields console.warn was called for].
ShowErrors(formField, errorsForRule, serverInitialized, lists) ==
    IF errorsForRule.t = "throw"
    THEN [outcome |-> errorsForRule, lists |-> lists, warned |-> <<>>]
    ELSE [outcome |-> Return([formField |-> formField, errors |-> errorsForRule.value]),
          lists |-> IF ~serverInitialized /\ HasErrorList(lists, formField)
                    THEN WriteErrorList(lists, formField, errorsForRule.value)
                    ELSE lists,
          warned |-> IF ~serverInitialized /\ ~HasErrorList(lists, formField)
                     THEN <<formField>> ELSE <<>>]

\* validateRule(validationRule) with the document's error elements lists.
validateRule(validationRule, serverInitialized, lists) ==
    ShowErrors(validationRule.formField, RuleErrors(validationRule), serverInitialized, lists)

\* this._formRules.forEach(...) of validate from rule i on: errors are the
\* responses with errors collected so far.
RECURSIVE ValidateFrom(_, _, _, _, _, _)
RECURSIVE ValidateAfter(_, _, _, _, _, _)
ValidateFrom(formRules, i, errors, serverInitialized, lists, warned) ==
    IF i > Len(formRules)
    THEN [outcome |-> Return(Len(errors) = 0), lists |-> lists, warned |-> warned]
    ELSE ValidateAfter(formRules, i, errors, serverInitialized, warned,
                       validateRule(formRules[i], serverInitialized, lists))

\* ValidateAfter collecting a response only from its second error on
\* (errors.length > 1 for errors.length > 0).
ValidateAfter_OffByOne(formRules, i, errors, serverInitialized, warned, r) ==
    IF r.outcome.t = "throw"
    THEN [outcome |-> r.outcome, lists |-> r.lists, warned |-> warned \o r.warned]
    ELSE ValidateFrom(formRules, i + 1,
             IF Len(r.outcome.value.errors) > 1
             THEN Append(errors, r.outcome.value) ELSE errors,
             serverInitialized, r.lists, warned \o r.warned)

\* ValidateAfter leaving the forEach at the first rule with errors
\* (a short-circuiting validate).
ValidateAfter_ShortCircuit(formRules, i, errors, serverInitialized, warned, r) ==
    IF r.outcome.t = "throw"
    THEN [outcome |-> r.outcome, lists |-> r.lists, warned |-> warned \o r.warned]
    ELSE IF Len(r.outcome.value.errors) > 0
    THEN [outcome |-> Return(FALSE), lists |-> r.lists, warned |-> warned \o r.warned]
    ELSE ValidateFrom(formRules, i + 1, errors, serverInitialized, r.lists,
                      warned \o r.warned)

\* The rest of the callback for rule i, for which validateRule gave r.
ValidateAfter(formRules, i, errors, serverInitialized, warned, r) ==
    IF r.outcome.t = "throw"
    THEN [outcome |-> r.outcome, lists |-> r.lists, warned |-> warned \o r.warned]
    ELSE ValidateFrom(formRules, i + 1,
             IF Len(r.outcome.value.errors) > 0
             THEN Append(errors, r.outcome.value) ELSE errors,
             serverInitialized, r.lists, warned \o r.warned)

\* validate without its check for an empty rule list.
validate_NoPrecondition(formRules, serverInitialized, lists) ==
    ValidateFrom(formRules, 1, <<>>, serverInitialized, lists, <<>>)

\* validate() on the rule list formRules.
validate(formRules, serverInitialized, lists) ==
    IF Len(formRules) = 0
    THEN [outcome |-> Throw(NoRulesMessage), lists |-> lists, warned |-> <<>>]
    ELSE ValidateFrom(formRules, 1, <<>>, serverInitialized, lists, <<>>)

\* ------------------------------------------------------------------------
\* The constructor: generateFormRules and initializeValueBinding. A form is
\* the sequence of its named controls, each [tag, name, value, rules] with
\* rules the data-vval-rules attribute: <<>> when the control has none,
\* <<text>> otherwise.

\* The position of the first control of the form that satisfies [name=...]
\* (and is of the tag given, when one is given: "" selects any tag); 0 if none.
QuerySelector(form, tag, name) ==
    LET hits == {i \in 1..Len(form) :
                    form[i].name = name /\ (tag = "" \/ form[i].tag = tag)}
    IN  IF hits = {} THEN 0 ELSE CHOOSE i \in hits : \A j \in hits : i <= j

\* The keys of Object.fromEntries(formData.entries()): the distinct names in
\* the order of their first entry.
RECURSIVE ObjectKeys(_, _)
ObjectKeys(form, i) ==
    IF i = 0 THEN <<>>
    ELSE LET before == ObjectKeys(form, i - 1)
         IN  IF \E j \in 1..Len(before) : before[j] = form[i].name
             THEN before ELSE Append(before, form[i].name)

\* formObj[formField]: the value of the last entry of that name.
ObjectValue(form, formField) ==
    LET hits == {i \in 1..Len(form) : form[i].name = formField}
    IN  form[CHOOSE i \in hits : \A j \in hits : j <= i].value

\* The selector `[name=${formField}]` parses: the attribute value is not
\* quoted, so it has to be a CSS identifier (letters, digits, '-' and '_',
\* not starting with a digit, nor with '-' and a digit; escapes and
\* characters beyond ASCII are left out).
IsIdentifier(formField) ==
    LET start == Lower \cup Upper \cup {"_"}
        rest == IF Char(formField, 1) = "-" THEN SubSeq(formField, 2, Len(formField))
                ELSE formField
    IN  /\ Len(rest) > 0
        /\ Char(rest, 1) \in start \cup {"-"}
        /\ AllIn(rest, start \cup Digits \cup {"-"})

\* The DOMException that querySelector throws for a selector that does not
\* parse.
SelectorSyntaxError == "SyntaxError"

\* The rules generateFormRules pushes for the keys of formObj, in order.
FormRulesOf(form, keys) ==
    [k \in 1..Len(keys) |->
        LET formField == keys[k]
            rulesStr == form[QuerySelector(form, "", formField)].rules
        IN  [formField |-> formField,
             value |-> ObjectValue(form, formField),
             rules |-> IF rulesStr = <<>> THEN <<>> ELSE Split(rulesStr[1], "|")]]

\* Object.fromEntries orders keys that are array indices ("0", "1", ...)
\* before the others; such a key is no identifier, so that the loop throws
\* whatever their order is, and the keys are taken in the order of entry.
generateFormRules(form) ==
    LET keys == ObjectKeys(form, Len(form))
    IN  IF \A k \in 1..Len(keys) : IsIdentifier(keys[k])
        THEN Return(FormRulesOf(form, keys))
        ELSE Throw(SelectorSyntaxError)

\* initializeValueBinding: the change listeners, as the function from the
\* controls of the form to the rule (its position in formRules) whose
\* listener the control carries, 0 for a control without listener. The
\* selector is input[name="..."]: the first input element of that name.
initializeValueBinding(formLocated, form, formRules) ==
    [i \in 1..Len(form) |->
        LET bound == {k \in 1..Len(formRules) :
                         formLocated /\ QuerySelector(form, "input", formRules[k].formField) = i}
        IN  IF bound = {} THEN 0 ELSE CHOOSE k \in bound : TRUE]

\* ------------------------------------------------------------------------
\* The documents, values and caller-side rule lists the model runs on.

Input(name, value, rules) == [tag |-> "input", name |-> name, value |-> value, rules |-> rules]

Select(name, value, rules) == [tag |-> "select", name |-> name, value |-> value, rules |-> rules]

ErrorEl(tag) == [tag |-> tag, items |-> <<>>]

NoErrorEls == [n \in {} |-> ErrorEl("ul")]

\* A document: whether it has a form element, the form's controls, and its
\* error elements.
Docs ==
    { [hasForm |-> FALSE, form |-> <<>>, lists |-> ("name" :> ErrorEl("ul"))],
      [hasForm |-> TRUE, form |-> <<>>, lists |-> NoErrorEls],
      [hasForm |-> TRUE,
       form |-> <<Input("name", "", <<"required">>)>>,
       lists |-> ("name" :> ErrorEl("ul"))],
      [hasForm |-> TRUE,
       form |-> <<Select("package", "", <<"required">>)>>,
       lists |-> ("package" :> ErrorEl("ul"))],
      [hasForm |-> TRUE,
       form |-> <<Input("name", "", <<>>)>>,
       lists |-> NoErrorEls],
      [hasForm |-> TRUE,
       form |-> <<Input("name", "", <<"minLength:2|maxLength:10">>),
                  Input("email", "", <<"required|email">>)>>,
       lists |-> ("name" :> ErrorEl("ul") @@ "email" :> ErrorEl("ul"))],
      [hasForm |-> TRUE,
       form |-> <<Input("name", "", <<"required">>),
                  Input("age", "", <<"min:13|max:two">>)>>,
       lists |-> ("name" :> ErrorEl("ul") @@ "age" :> ErrorEl("ul"))],
      [hasForm |-> TRUE,
       form |-> <<Input("age", "", <<"min:">>), Input("age", "29", <<"min:two">>)>>,
       lists |-> ("age" :> ErrorEl("ul"))],
      [hasForm |-> TRUE,
       form |-> <<Input("url", "", <<"url">>)>>,
       lists |-> ("url" :> ErrorEl("p"))],
      [hasForm |-> TRUE,
       form |-> <<Input("name", "", <<"required|if">>)>>,
       lists |-> ("name" :> ErrorEl("ul"))],
      [hasForm |-> TRUE,
       form |-> <<Input("phone", "", <<"matches:^a:[0-9]$">>)>>,
       lists |-> ("phone" :> ErrorEl("ul"))],
      [hasForm |-> TRUE,
       form |-> <<Input("items[]", "", <<"required">>)>>,
       lists |-> ("items[]" :> ErrorEl("ul"))] }

\* The values a change event or the caller gives a field.
Values == {"", "G", "29"}

\* The rule arrays the caller holds, for init and validateRule.
CallerLists ==
    { <<>>,
      <<[formField |-> "name", value |-> "Grant",
         rules |-> <<"required", "minLength:2", "maxLength:20">>]>>,
      <<[formField |-> "name", value |-> "", rules |-> <<>>],
        [formField |-> "age", value |-> "29", rules |-> <<"min:13", "max">>]>> }

\* ------------------------------------------------------------------------
\* The session and its document.

VARIABLES
    form,               \* the controls of the document's form, with their values
    errorLists,         \* the document's error elements
    config,             \* _config: htmlFormSelector ("" for null), validateOnEntry
    formLocated,        \* _form is not null
    ownRules,           \* the rule array the constructor made
    callerRules,        \* the rule array the caller holds
    formRulesRef,       \* _formRules: the array it refers to, "own" or "caller"
    serverInitialized,  \* _serverInitialized
    listeners,          \* the change listeners: control -> position in ownRules
    call,               \* the last operation
    outcome,            \* what it returned or threw
    warned              \* the fields it called console.warn for

vars ==
    <<form, errorLists, config, formLocated, ownRules, callerRules, formRulesRef,
      serverInitialized, listeners, call, outcome, warned>>

\* this._formRules
FormRules == IF formRulesRef = "own" THEN ownRules ELSE callerRules

NoOutcome == [t |-> "none"]

\* The constructor after generateFormRules, which gave generated when the
\* form was located: an Error it throws leaves the constructor, and
\* _formRules is the empty array of the field's initializer.
ConstructedWith(doc, userConfig, callerList, located, generated) ==
    LET formRules == IF generated.t = "throw" THEN <<>> ELSE generated.value
    IN  /\ form = doc.form
        /\ errorLists = doc.lists
        /\ config = userConfig
        /\ formLocated = located
        /\ ownRules = formRules
        /\ callerRules = callerList
        /\ formRulesRef = "own"
        /\ serverInitialized = FALSE
        /\ listeners = initializeValueBinding(located /\ generated.t = "return",
                                              doc.form, formRules)
        /\ call = [op |-> "constructor"]
        /\ outcome = IF generated.t = "throw" THEN generated ELSE NoOutcome
        /\ warned = <<>>

\* new VanillaVal(userConfig) in document doc, by a caller that holds the
\* rule array callerList.
Constructed(doc, userConfig, callerList) ==
    ConstructedWith(doc, userConfig, callerList,
                    userConfig.htmlFormSelector # "" /\ doc.hasForm,
                    IF userConfig.htmlFormSelector # "" /\ doc.hasForm
                    THEN generateFormRules(doc.form) ELSE Return(<<>>))

\* The constructor returned a session: there is an object to call.
Alive == ~(call.op = "constructor" /\ outcome.t = "throw")

\* The sessions the model starts from: the default configuration and
\* validateOnEntry, over every document, and htmlFormSelector null.
Configs ==
    {[htmlFormSelector |-> "form", validateOnEntry |-> FALSE],
     [htmlFormSelector |-> "form", validateOnEntry |-> TRUE],
     [htmlFormSelector |-> "", validateOnEntry |-> FALSE]}

Init ==
    \E doc \in Docs, userConfig \in Configs, callerList \in CallerLists :
        /\ userConfig.htmlFormSelector = "" => Len(doc.form) = 1
        /\ Constructed(doc, userConfig, callerList)

\* The document and the last outcome after a call that gave r.
Shown(r) ==
    /\ outcome' = r.outcome
    /\ errorLists' = r.lists
    /\ warned' = r.warned

\* val.validate(); again records that the call before it was validate() too.
Validate ==
    /\ Alive
    /\ call' = [op |-> "validate", again |-> (call.op = "validate")]
    /\ Shown(validate(FormRules, serverInitialized, errorLists))
    /\ UNCHANGED <<form, config, formLocated, ownRules, callerRules, formRulesRef,
                   serverInitialized, listeners>>

\* val.validateRule(rule)
ValidateRuleCall(rule) ==
    /\ Alive
    /\ call' = [op |-> "validateRule", rule |-> rule]
    /\ Shown(validateRule(rule, serverInitialized, errorLists))
    /\ UNCHANGED <<form, config, formLocated, ownRules, callerRules, formRulesRef,
                   serverInitialized, listeners>>

\* init without the assignment to _serverInitialized.
InitCall_NoFlag ==
    /\ Alive
    /\ formRulesRef' = "caller"
    /\ call' = [op |-> "init"]
    /\ outcome' = NoOutcome
    /\ warned' = <<>>
    /\ UNCHANGED <<form, errorLists, config, formLocated, ownRules, callerRules, listeners,
                   serverInitialized>>

\* val.init(formRules) with the caller's array.
InitCall ==
    /\ Alive
    /\ formRulesRef' = "caller"
    /\ serverInitialized' = TRUE
    /\ call' = [op |-> "init"]
    /\ outcome' = NoOutcome
    /\ warned' = <<>>
    /\ UNCHANGED <<form, errorLists, config, formLocated, ownRules, callerRules, listeners>>

\* The listener validating whatever validateOnEntry says.
Listener_AlwaysValidates(k, v) ==
    /\ ownRules' = [ownRules EXCEPT ![k].value = v]
    /\ Shown(validateRule([ownRules[k] EXCEPT !.value = v], serverInitialized, errorLists))

\* The listener validating the whole form (validate() for validateRule(rule)).
Listener_ValidatesForm(k, v) ==
    /\ ownRules' = [ownRules EXCEPT ![k].value = v]
    /\ IF config.validateOnEntry
       THEN Shown(validate([ownRules EXCEPT ![k].value = v], serverInitialized, errorLists))
       ELSE /\ outcome' = NoOutcome
            /\ UNCHANGED <<errorLists, warned>>

\* The change listener of rule k of ownRules, its input having the value v.
Listener(k, v) ==
    /\ ownRules' = [ownRules EXCEPT ![k].value = v]
    /\ IF config.validateOnEntry
       THEN Shown(validateRule([ownRules[k] EXCEPT !.value = v], serverInitialized,
                               errorLists))
       ELSE /\ outcome' = NoOutcome
            /\ UNCHANGED <<errorLists, warned>>

\* Change with a listener that looks its rule up in _formRules when the
\* event comes (this._formRules[k]) and not in the array it was bound to.
Change_WritesCurrentList(i, v) ==
    /\ Alive
    /\ form' = [form EXCEPT ![i].value = v]
    /\ call' = [op |-> "change", control |-> i, value |-> v]
    /\ outcome' = NoOutcome
    /\ IF listeners[i] = 0 \/ listeners[i] > Len(FormRules)
       THEN UNCHANGED <<ownRules, callerRules>>
       ELSE IF formRulesRef = "own"
       THEN /\ ownRules' = [ownRules EXCEPT ![listeners[i]].value = v]
            /\ UNCHANGED callerRules
       ELSE /\ callerRules' = [callerRules EXCEPT ![listeners[i]].value = v]
            /\ UNCHANGED ownRules
    /\ UNCHANGED <<errorLists, warned, config, formLocated, formRulesRef,
                   serverInitialized, listeners>>

\* The user gives control i of the form the value v and a change event is
\* dispatched on it: its listener, if it has one, runs. An Error the
\* listener throws is reported by the dispatch and goes to no caller.
Change(i, v) ==
    /\ Alive
    /\ form' = [form EXCEPT ![i].value = v]
    /\ call' = [op |-> "change", control |-> i, value |-> v]
    /\ IF listeners[i] = 0
       THEN /\ outcome' = NoOutcome
            /\ UNCHANGED <<ownRules, errorLists, warned>>
       ELSE Listener(listeners[i], v)
    /\ UNCHANGED <<config, formLocated, callerRules, formRulesRef, serverInitialized,
                   listeners>>

\* The caller assigns to the value of a rule of the array it passed to init
\* (what it did to the array before init is the choice of its first content).
CallerSetValue(i, v) ==
    /\ Alive
    /\ formRulesRef = "caller"
    /\ callerRules[i].value # v
    /\ callerRules' = [callerRules EXCEPT ![i].value = v]
    /\ call' = [op |-> "caller"]
    /\ outcome' = NoOutcome
    /\ warned' = <<>>
    /\ UNCHANGED <<form, errorLists, config, formLocated, ownRules, formRulesRef,
                   serverInitialized, listeners>>

\* The caller removes the last rule of the array it passed to init
\* (formRules.pop()).
CallerPop ==
    /\ Alive
    /\ formRulesRef = "caller"
    /\ Len(callerRules) > 0
    /\ callerRules' = SubSeq(callerRules, 1, Len(callerRules) - 1)
    /\ call' = [op |-> "caller"]
    /\ outcome' = NoOutcome
    /\ warned' = <<>>
    /\ UNCHANGED <<form, errorLists, config, formLocated, ownRules, formRulesRef,
                   serverInitialized, listeners>>

Next ==
    \/ Validate
    \/ \E i \in 1..Len(callerRules) : ValidateRuleCall(callerRules[i])
    \/ InitCall
    \/ \E i \in 1..Len(form), v \in Values : Change(i, v)
    \/ \E i \in 1..Len(callerRules), v \in Values : CallerSetValue(i, v)
    \/ CallerPop

Spec == Init /\ [][Next]_vars

\* ------------------------------------------------------------------------
\* A second specification, for the rule parser: a session without form,
\* whose caller validates rules over a wide set of tokens, directly and
\* through init and validate.

NumericMethods == {"min", "max", "minLength", "maxLength"}

\* Tokens without parameter or with an empty one.
MissingTokens == NumericMethods \cup {m \o ":" : m \in NumericMethods}

\* Tokens whose parameter is text that is no number.
NotANumberTokens == {m \o ":" \o p : m \in NumericMethods, p \in {"two", "NaN"}}

\* Tokens whose parameter is a number that is not finite, or not whole.
InfiniteTokens == {m \o ":" \o p : m \in NumericMethods, p \in {"Infinity", "-Infinity"}}

DecimalTokens == {m \o ":1.5" : m \in NumericMethods}

WellFormedTokens ==
    {"required", "email", "url", "min:13", "max:100", "minLength:2", "maxLength:10"}

UnknownTokens == {"if", "", "Required", "length:2"}

MatchesTokens == {"matches:^a:[0-9]$"}

Tokens ==
    WellFormedTokens \cup MissingTokens \cup NotANumberTokens \cup InfiniteTokens
    \cup DecimalTokens \cup UnknownTokens \cup MatchesTokens \cup {"min:13:5", "max: "}

RuleValues == {"", "G", "1.4", "1.5", "29"}

\* Rules of one token, and rules whose token comes after one that fails or
\* passes without throwing.
RuleInputs ==
    {[formField |-> "name", value |-> v, rules |-> <<t>>] : v \in RuleValues, t \in Tokens}
    \cup {[formField |-> "name", value |-> v, rules |-> <<"required", t>>] :
             v \in {"", "G"}, t \in Tokens}

PassingRule == [formField |-> "email", value |-> "g@b.co", rules |-> <<"required", "email">>]

FailingRule == [formField |-> "email", value |-> "G", rules |-> <<"required", "email">>]

\* The arrays of the caller: one rule, or one after a rule that does not
\* throw.
RuleLists ==
    {<<rule>> : rule \in RuleInputs}
    \cup {<<first, rule>> : first \in {PassingRule, FailingRule}, rule \in RuleInputs}

RuleDoc == [hasForm |-> FALSE, form |-> <<>>, lists |-> ("name" :> ErrorEl("ul"))]

InitRule ==
    \E callerList \in RuleLists :
        Constructed(RuleDoc, [htmlFormSelector |-> "", validateOnEntry |-> FALSE], callerList)

NextRule ==
    \/ Validate
    \/ \E i \in 1..Len(callerRules) : ValidateRuleCall(callerRules[i])
    \/ InitCall

SpecRule == InitRule /\ [][NextRule]_vars

\* ------------------------------------------------------------------------
\* A third specification, for the four validators with a bound: a session
\* without form whose caller calls maxLength, minLength, max and min
\* directly, and validateRule on rules of one such token, with values below,
\* at and above the bound.

\* The numerals of the bounds, and the values: numerals, the empty string and
\* a text that is no number.
BoundTexts == {"-1", "0", "1.5", "2", "3", "10"}

BoundValues == BoundTexts \cup {"", "ab"}

BoundRules ==
    {[formField |-> "age", value |-> v, rules |-> <<m \o ":" \o b>>] :
        v \in BoundValues, m \in NumericMethods, b \in BoundTexts}

InitBound ==
    Constructed(RuleDoc, [htmlFormSelector |-> "", validateOnEntry |-> FALSE], <<>>)

\* val.maxLength / minLength / max / min (formField, value, bound), called
\* directly: max and min with the numbers the numerals value and bound
\* denote, maxLength and minLength with the string value.
ValidatorCall(method, value, bound) ==
    /\ Alive
    /\ call' = [op |-> "validator", method |-> method, value |-> value, bound |-> bound]
    /\ outcome' = Return(CASE method = MethodNames.MAX_LENGTH ->
                                 maxLength("age", value, Number(bound))
                            [] method = MethodNames.MIN_LENGTH ->
                                 minLength("age", value, Number(bound))
                            [] method = MethodNames.MAX ->
                                 max("age", Number(value), Number(bound))
                            [] method = MethodNames.MIN ->
                                 min("age", Number(value), Number(bound)))
    /\ warned' = <<>>
    /\ UNCHANGED <<form, errorLists, config, formLocated, ownRules, callerRules,
                   formRulesRef, serverInitialized, listeners>>

NextBound ==
    \/ \E method \in {MethodNames.MAX_LENGTH, MethodNames.MIN_LENGTH}, value \in BoundValues,
          bound \in BoundTexts : ValidatorCall(method, value, bound)
    \/ \E method \in {MethodNames.MAX, MethodNames.MIN}, value \in BoundTexts,
          bound \in BoundTexts : ValidatorCall(method, value, bound)
    \/ \E rule \in BoundRules : ValidateRuleCall(rule)

SpecBound == InitBound /\ [][NextBound]_vars

\* ------------------------------------------------------------------------
\* Properties

\* The name of the method of a rule token: what stands before its first ':'.
Method(r) == Split(r, ":")[1]

\* The methods the specification lists as recognized.
RecognizedMethods ==
    {"required", "email", "url", "min", "max", "minLength", "maxLength", "matches"}

\* validateRule(rule) reaches token i: no token before it throws.
Met(rule, i) ==
    \A j \in 1..(i - 1) : TokenResponse(rule, rule.rules[j]).t = "return"

\* The tokens the last call reached, for a call of validateRule or validate.
MetTokens ==
    IF call.op = "validateRule"
    THEN {call.rule.rules[i] : i \in {j \in 1..Len(call.rule.rules) : Met(call.rule, j)}}
    ELSE IF call.op = "validate"
    THEN UNION {{FormRules[k].rules[i] : i \in {j \in 1..Len(FormRules[k].rules) :
                                                   Met(FormRules[k], j)}} :
                k \in {h \in 1..Len(FormRules) :
                          \A g \in 1..(h - 1) : RuleErrors(FormRules[g]).t = "return"}}
    ELSE {}

\* No rule of the session's list has a token that throws.
AllWellFormed == \A k \in 1..Len(FormRules) : RuleErrors(FormRules[k]).t = "return"

\* C1: on a non-empty rule list without malformed or unknown token,
\* validate() returns true if and only if every rule's errors are empty.
C1_ValidateTrueIffNoErrors ==
    (call.op = "validate" /\ Len(FormRules) > 0 /\ AllWellFormed)
    => outcome = Return(\A k \in 1..Len(FormRules) : RuleErrors(FormRules[k]).value = <<>>)

\* validate() returned false on a list of two rules of which only the second
\* has errors.
C1_Witness ==
    /\ call.op = "validate" /\ Len(FormRules) = 2 /\ AllWellFormed
    /\ outcome = Return(FALSE)
    /\ RuleErrors(FormRules[1]).value = <<>>
    /\ Len(RuleErrors(FormRules[2]).value) = 1

\* C2: validate() on an empty rule list throws the 'No validation rules'
\* Error and returns no boolean.
C2_EmptyListThrows ==
    (call.op = "validate" /\ Len(FormRules) = 0) => outcome = Throw(NoRulesMessage)

\* validate() threw on the empty list that the caller had passed to init.
C2_Witness ==
    /\ call.op = "validate" /\ Len(FormRules) = 0 /\ formRulesRef = "caller"
    /\ outcome = Throw(NoRulesMessage)

\* C3: a token whose method is none of the recognized ones makes validateRule,
\* and validate, throw 'Validation method (<method>) was not found'.
C3_UnknownRuleThrows ==
    \A r \in MetTokens :
        Method(r) \notin RecognizedMethods => outcome = Throw(UnknownRuleMessage(Method(r)))

\* validate() threw for the token "if" of its second rule.
C3_Witness ==
    /\ call.op = "validate" /\ Len(FormRules) = 2 /\ "if" \in MetTokens
    /\ FormRules[2].rules = <<"required", "if">>
    /\ outcome = Throw("Validation method (if) was not found")

\* C4: a matches:<pattern> token is a recognized rule: validating it does
\* not throw the Error of an unknown method.
C4_MatchesRecognized ==
    \A r \in MetTokens :
        Method(r) = "matches" => outcome # Throw(UnknownRuleMessage("matches"))

\* C5: a min, max, minLength or maxLength token without parameter or with an
\* empty one throws 'No min/max value ...', and one whose parameter is text
\* that is no number, or NaN, throws '... is not a number', out of
\* validateRule and validate.
C5_MalformedBoundThrows ==
    \A r \in MetTokens :
        /\ r \in MissingTokens => outcome = Throw(MissingParameterMessage)
        /\ r \in NotANumberTokens => outcome = Throw(NotANumberMessage)

\* validate() threw for the token "maxLength:NaN" of its second rule.
C5_Witness ==
    /\ call.op = "validate" /\ Len(FormRules) = 2
    /\ FormRules[2].rules = <<"maxLength:NaN">>
    /\ outcome = Throw(NotANumberMessage)

\* Numbers in tenths for the properties: [s |-> 0, t |-> n] is n/10,
\* [s |-> 1, ...] is Infinity and [s |-> -1, ...] is -Infinity.
Tenths(n) == [s |-> 0, t |-> n]

TenthsLess(a, b) == IF a.s # 0 \/ b.s # 0 THEN a.s < b.s ELSE a.t < b.t

\* The bound each token with a parameter the code accepts stands for.
BoundOf ==
    [r \in {"min:13", "max:100", "minLength:2", "maxLength:10", "min:13:5", "max: "}
           \cup DecimalTokens \cup InfiniteTokens |->
        CASE r \in {"min:13", "min:13:5"} -> Tenths(130)
          [] r = "max:100" -> Tenths(1000)
          [] r = "minLength:2" -> Tenths(20)
          [] r = "maxLength:10" -> Tenths(100)
          [] r = "max: " -> Tenths(0)
          [] r \in DecimalTokens -> Tenths(15)
          [] r \in {m \o ":Infinity" : m \in NumericMethods} -> [s |-> 1, t |-> 0]
          [] OTHER -> [s |-> -1, t |-> 0]]

\* The numbers the values of RuleValues stand for; "G" is no number.
ValueOf == ("" :> Tenths(0) @@ "1.4" :> Tenths(14) @@ "1.5" :> Tenths(15) @@ "29" :> Tenths(290))

\* Whether the value v breaks the bound of token r.
BreaksBound(r, v) ==
    CASE Method(r) = "min" -> v \in DOMAIN ValueOf /\ TenthsLess(ValueOf[v], BoundOf[r])
      [] Method(r) = "max" -> v \in DOMAIN ValueOf /\ TenthsLess(BoundOf[r], ValueOf[v])
      [] Method(r) = "minLength" -> TenthsLess(Tenths(10 * Len(v)), BoundOf[r])
      [] Method(r) = "maxLength" -> TenthsLess(BoundOf[r], Tenths(10 * Len(v)))

BoundMessage(formField, r) ==
    CASE Method(r) = "min" -> formField \o " is less than minimum number supplied"
      [] Method(r) = "max" -> formField \o " is more than maximum number supplied"
      [] Method(r) = "minLength" -> formField \o " is less than minimum length supplied"
      [] Method(r) = "maxLength" -> formField \o " is more than maximum length supplied"

\* validateRule on a rule of the one token r, r among accepted, compared
\* the value with the bound r stands for.
UsedAsParsed(accepted) ==
    (call.op = "validateRule" /\ Len(call.rule.rules) = 1 /\ call.rule.rules[1] \in accepted)
    => outcome = Return([formField |-> call.rule.formField,
                         errors |-> IF BreaksBound(call.rule.rules[1], call.rule.value)
                                    THEN <<BoundMessage(call.rule.formField, call.rule.rules[1])>>
                                    ELSE <<>>])

\* C6 as claimed: every parameter that parses to no finite number (Infinity,
\* -Infinity, NaN, text) throws '... is not a number', and an accepted
\* parameter is the bound as parsed.
C6_NonFiniteRejected ==
    /\ \A r \in MetTokens :
           r \in NotANumberTokens \cup InfiniteTokens => outcome = Throw(NotANumberMessage)
    /\ UsedAsParsed(DOMAIN BoundOf \ InfiniteTokens)

\* C6, amended: only a parameter that parses to NaN throws '... is not a
\* number'; Infinity and -Infinity are accepted, and every accepted parameter
\* is the bound as parsed, not rounded and not clamped.
C6_OnlyNaNRejected ==
    /\ \A r \in MetTokens : r \in NotANumberTokens => outcome = Throw(NotANumberMessage)
    /\ UsedAsParsed(DOMAIN BoundOf)

\* validateRule returned the min error for the value 1.4 under min:1.5.
C6_Witness ==
    /\ call.op = "validateRule"
    /\ call.rule.rules = <<"min:1.5">> /\ call.rule.value = "1.4"
    /\ outcome = Return([formField |-> "name",
                         errors |-> <<"name is less than minimum number supplied">>])

\* The name of control i is the name of no other control of the form.
UniqueName(i) == \A j \in 1..Len(form) : form[j].name = form[i].name => j = i

\* C7: a change event on a field of the bound form, an input or a select,
\* writes the new value into the field's rule.
C7_ChangeUpdatesValue ==
    (call.op = "change" /\ formLocated /\ UniqueName(call.control))
    => \E k \in 1..Len(ownRules) :
           /\ ownRules[k].formField = form[call.control].name
           /\ ownRules[k].value = call.value

\* C8: with validateOnEntry false, a change event on a bound field updates
\* the rule's value and leaves every error element as it is; the error
\* elements change only in validate() and validateRule().
C8_SilentChange ==
    [][~config.validateOnEntry =>
          /\ call'.op = "change" =>
                /\ errorLists' = errorLists
                /\ listeners[call'.control] # 0 =>
                      ownRules'[listeners[call'.control]].value = call'.value
          /\ errorLists' # errorLists => call'.op \in {"validate", "validateRule"}]_vars

\* After a change event without validateOnEntry the rule has the new value
\* and the field's error list still shows other errors than the value has.
C8_Witness ==
    /\ call.op = "change" /\ ~config.validateOnEntry /\ ~serverInitialized
    /\ listeners[call.control] # 0
    /\ LET rule == ownRules[listeners[call.control]]
       IN  /\ rule.value = call.value
           /\ HasErrorList(errorLists, rule.formField)
           /\ RuleErrors(rule).t = "return"
           /\ errorLists[rule.formField].items # RuleErrors(rule).value

\* C9: with validateOnEntry true and before any init, a change event on a
\* bound field stores the new value and validates that rule only: its error
\* list shows its errors for the new value, and the other rules and error
\* elements are as before.
C9_LiveChange ==
    [][(call'.op = "change" /\ config.validateOnEntry /\ ~serverInitialized
           /\ listeners[call'.control] # 0) =>
          LET k == listeners[call'.control]
              formField == ownRules[k].formField
          IN  /\ ownRules'[k].value = call'.value
              /\ (HasErrorList(errorLists, formField) /\ RuleErrors(ownRules'[k]).t = "return")
                     => errorLists'[formField].items = RuleErrors(ownRules'[k]).value
              /\ \A n \in DOMAIN errorLists \ {formField} : errorLists'[n] = errorLists[n]
              /\ \A h \in (1..Len(ownRules)) \ {k} : ownRules'[h] = ownRules[h]
              /\ callerRules' = callerRules]_vars

\* After a change event with validateOnEntry the changed field shows its
\* errors while the other field, which has errors, shows none.
C9_Witness ==
    /\ call.op = "change" /\ config.validateOnEntry /\ ~serverInitialized
    /\ listeners[call.control] # 0 /\ Len(ownRules) = 2
    /\ \A h \in 1..2 :
           RuleErrors(ownRules[h]).t = "return" /\ RuleErrors(ownRules[h]).value # <<>>
    /\ LET k == listeners[call.control]
       IN  /\ errorLists[ownRules[k].formField].items = RuleErrors(ownRules[k]).value
           /\ errorLists[ownRules[3 - k].formField].items = <<>>

\* C10: init makes the caller's array the session's rule list and sets
\* _serverInitialized; from then on the flag stays set and no error element
\* is written, whatever is called.
C10_InitSuppressesWrites ==
    /\ [](call.op = "init" => (serverInitialized /\ FormRules = callerRules))
    /\ [][serverInitialized => (serverInitialized' /\ errorLists' = errorLists)]_vars

\* After init on a session with a form, validate() returned false for a
\* field whose error list is empty.
C10_Witness ==
    /\ serverInitialized /\ formLocated /\ AllWellFormed
    /\ call.op = "validate" /\ outcome = Return(FALSE)
    /\ \E k \in 1..Len(FormRules) :
           /\ RuleErrors(FormRules[k]).value # <<>>
           /\ HasErrorList(errorLists, FormRules[k].formField)
           /\ errorLists[FormRules[k].formField].items = <<>>

\* C11: when validate() returns, true or false, before any init, every field
\* of the rule list that has a ul error list shows exactly the errors of its
\* rule for the current value, in token order: also a field after one that
\* failed, and nothing at all for a field without errors.
C11_EvaluateAll ==
    (call.op = "validate" /\ outcome.t = "return" /\ ~serverInitialized)
    => \A k \in 1..Len(FormRules) :
           HasErrorList(errorLists, FormRules[k].formField)
           => errorLists[FormRules[k].formField].items = RuleErrors(FormRules[k]).value

\* validate() returned false on two fields with errors, and the second
\* field's list shows its two errors.
C11_Witness ==
    /\ call.op = "validate" /\ outcome = Return(FALSE) /\ ~serverInitialized
    /\ Len(FormRules) = 2
    /\ RuleErrors(FormRules[1]).value # <<>>
    /\ Len(RuleErrors(FormRules[2]).value) = 2
    /\ errorLists[FormRules[2].formField].items = RuleErrors(FormRules[2]).value

\* C12: a validate() that directly follows a validate() (no change event, no
\* init, nothing else between them) returns or throws what the first did and
\* leaves every error element with the content the first gave it.
C12_ValidateIdempotent ==
    [][(call'.op = "validate" /\ call'.again)
          => (outcome' = outcome /\ errorLists' = errorLists)]_vars

\* A second validate() in a row returned false with a field's two errors
\* on display.
C12_Witness ==
    /\ call.op = "validate" /\ call.again /\ outcome = Return(FALSE)
    /\ \E k \in 1..Len(FormRules) :
           /\ HasErrorList(errorLists, FormRules[k].formField)
           /\ Len(errorLists[FormRules[k].formField].items) = 2
           /\ errorLists[FormRules[k].formField].items = RuleErrors(FormRules[k]).value

\* The positions of the tokens of rule whose validator does not pass, in
\* ascending order.
RECURSIVE FailingTokens(_, _)
FailingTokens(rule, n) ==
    IF n = 0 THEN <<>>
    ELSE IF TokenResponse(rule, rule.rules[n]).value.success
    THEN FailingTokens(rule, n - 1)
    ELSE Append(FailingTokens(rule, n - 1), n)

\* C13: validateRule(rule), none of whose tokens throws, returns the field
\* name with one message per failing token and none for a passing token, in
\* the order of the tokens; the response of each token carries a message
\* exactly if it is no success.
C13_AllFailuresInOrder ==
    (call.op = "validateRule" /\ Met(call.rule, Len(call.rule.rules) + 1))
    => LET failing == FailingTokens(call.rule, Len(call.rule.rules))
       IN  /\ outcome.t = "return"
           /\ outcome.value.formField = call.rule.formField
           /\ Len(outcome.value.errors) = Len(failing)
           /\ \A j \in 1..Len(failing) :
                  outcome.value.errors[j]
                      = TokenResponse(call.rule, call.rule.rules[failing[j]]).value.message
           /\ \A i \in 1..Len(call.rule.rules) :
                  LET response == TokenResponse(call.rule, call.rule.rules[i]).value
                  IN  ("message" \in DOMAIN response) <=> ~response.success

\* validateRule returned the messages of the first and the second of three
\* tokens, the third passing.
C13_Witness ==
    /\ call.op = "validateRule"
    /\ call.rule.rules = <<"required", "minLength:2", "maxLength:20">>
    /\ outcome = Return([formField |-> "name",
                         errors |-> <<"name is required",
                                      "name is less than minimum length supplied">>])

\* The numbers of the numerals and values of the third specification, in
\* tenths; "ab" is no number.
TenthsOf ==
    ("-1" :> -10 @@ "0" :> 0 @@ "1.5" :> 15 @@ "2" :> 20 @@ "3" :> 30 @@ "10" :> 100
     @@ "" :> 0)

\* Whether value breaks the bound under method, as the specification has it:
\* strictly less than a minimum, strictly greater than a maximum.
Fails(method, value, bound) ==
    CASE method = "minLength" -> 10 * Len(value) < TenthsOf[bound]
      [] method = "maxLength" -> 10 * Len(value) > TenthsOf[bound]
      [] method = "min" -> value \in DOMAIN TenthsOf /\ TenthsOf[value] < TenthsOf[bound]
      [] method = "max" -> value \in DOMAIN TenthsOf /\ TenthsOf[value] > TenthsOf[bound]

\* C14: minLength fails exactly if the length is strictly less than the
\* bound, maxLength exactly if it is strictly greater, min exactly if the
\* number is strictly less and max exactly if it is strictly greater, so a
\* value at the bound passes: when the validator is called directly and when
\* validateRule reaches it through a token.
C14_StrictBounds ==
    /\ call.op = "validator"
       => outcome = Return(IF Fails(call.method, call.value, call.bound)
                           THEN Failure(BoundMessage("age", call.method))
                           ELSE Success)
    /\ (call.op = "validateRule" /\ call.rule \in BoundRules)
       => LET parts == Split(call.rule.rules[1], ":")
          IN  outcome = Return([formField |-> "age",
                                errors |-> IF Fails(parts[1], call.rule.value, parts[2])
                                           THEN <<BoundMessage("age", parts[1])>>
                                           ELSE <<>>])

\* validateRule returned no error for the value 1.5 under max:1.5.
C14_Witness ==
    /\ call.op = "validateRule"
    /\ call.rule = [formField |-> "age", value |-> "1.5", rules |-> <<"max:1.5">>]
    /\ outcome = Return([formField |-> "age", errors |-> <<>>])

\* The document has no ul element of the class vval-<formField>-errors: no
\* element of the class at all, or one that is no ul.
LacksList(formField) ==
    formField \notin DOMAIN errorLists \/ errorLists[formField].tag # "ul"

\* The fields of the session's rule list that have no ul error list, in the
\* order of the list.
RECURSIVE FieldsWithoutList(_)
FieldsWithoutList(n) ==
    IF n = 0 THEN <<>>
    ELSE IF LacksList(FormRules[n].formField)
    THEN Append(FieldsWithoutList(n - 1), FormRules[n].formField)
    ELSE FieldsWithoutList(n - 1)

\* C15: before any init, validateRule on a field without ul error list (an
\* element of another type with the class counts as none) writes nothing to
\* the document, warns once for the field and returns the field's errors; and
\* validate() warns for each such field, leaves the elements of those fields
\* as they are and returns whether all rules are without errors, as it does
\* for fields that have their list.
C15_MissingListWarns ==
    [][~serverInitialized =>
          /\ (call'.op = "validateRule" /\ RuleErrors(call'.rule).t = "return"
                 /\ LacksList(call'.rule.formField))
             => /\ errorLists' = errorLists
                /\ warned' = <<call'.rule.formField>>
                /\ outcome' = Return([formField |-> call'.rule.formField,
                                      errors |-> RuleErrors(call'.rule).value])
          /\ (call'.op = "validate" /\ Len(FormRules) > 0 /\ AllWellFormed)
             => /\ warned' = FieldsWithoutList(Len(FormRules))
                /\ \A n \in DOMAIN errorLists :
                       LacksList(n) => errorLists'[n] = errorLists[n]
                /\ outcome' = Return(\A k \in 1..Len(FormRules) :
                                         RuleErrors(FormRules[k]).value = <<>>)]_vars

\* validate() returned false and warned for the field url, whose error
\* element is a p that is still empty.
C15_Witness ==
    /\ call.op = "validate" /\ ~serverInitialized /\ outcome = Return(FALSE)
    /\ warned = <<"url">>
    /\ "url" \in DOMAIN errorLists
    /\ errorLists["url"].tag = "p" /\ errorLists["url"].items = <<>>
    /\ RuleErrors(FormRules[1]).value = <<"url is not a valid url">>

\* The position of the first control of the form with the name given.
FirstOf(name) ==
    CHOOSE i \in 1..Len(form) :
        form[i].name = name /\ \A j \in 1..(i - 1) : form[j].name # name

\* The tokens joined by '|'.
RECURSIVE Joined(_)
Joined(tokens) ==
    IF Len(tokens) = 1 THEN tokens[1]
    ELSE tokens[1] \o "|" \o Joined(Tail(tokens))

\* C16: constructing a session over a located form gives one rule for each
\* distinct field name and no other, in the order in which the names first
\* appear in the form; the rule of a field whose name no other field has
\* holds the field's value and the tokens of its data-vval-rules attribute in
\* their order, and an empty token list, without failure, if the field has
\* no such attribute.
C16_OneRulePerField ==
    (call.op = "constructor" /\ formLocated)
    => /\ outcome.t # "throw"
       /\ \A i \in 1..Len(form) :
              \E k \in 1..Len(ownRules) : ownRules[k].formField = form[i].name
       /\ \A k \in 1..Len(ownRules) :
              \E i \in 1..Len(form) : ownRules[k].formField = form[i].name
       /\ \A k, h \in 1..Len(ownRules) :
              k < h => FirstOf(ownRules[k].formField) < FirstOf(ownRules[h].formField)
       /\ \A i \in 1..Len(form), k \in 1..Len(ownRules) :
              (UniqueName(i) /\ ownRules[k].formField = form[i].name)
              => /\ ownRules[k].value = form[i].value
                 /\ IF form[i].rules = <<>> THEN ownRules[k].rules = <<>>
                    ELSE /\ Len(ownRules[k].rules) > 0
                         /\ Joined(ownRules[k].rules) = form[i].rules[1]
                         /\ \A t \in 1..Len(ownRules[k].rules) :
                                IndexOf(ownRules[k].rules[t], "|", 1) = 0

\* C16 for the forms all of whose field names are CSS identifiers.
C16_IdentifierNames ==
    (\A i \in 1..Len(form) : IsIdentifier(form[i].name)) => C16_OneRulePerField

\* C17: the session's rule list and the values in it change only in the
\* session's own operations; what the caller does to the array it passed to
\* init, or to a rule of it, after init leaves the session's rule list, and
\* so the outcome of the next validate(), as it was.
C17_NoExternalAliasing ==
    [][call'.op = "caller"
          => /\ FormRules' = FormRules
             /\ validate(FormRules', serverInitialized', errorLists').outcome
                    = validate(FormRules, serverInitialized, errorLists).outcome]_vars

\* C18: after init on a session constructed over a form, a change event on
\* a field of the form changes nothing in the session's rule list, so that
\* the outcome of the next validate() is as it was before the event; the
\* value goes to the rule the constructor generated, which the listener is
\* bound to.
C18_ChangeAfterInit ==
    [][(call'.op = "change" /\ serverInitialized /\ formLocated)
          => /\ FormRules' = FormRules
             /\ FormRules' = callerRules
             /\ validate(FormRules', serverInitialized', errorLists').outcome
                    = validate(FormRules, serverInitialized, errorLists).outcome
             /\ listeners[call'.control] # 0
                    => ownRules'[listeners[call'.control]].value = call'.value]_vars

\* After init, a change event gave the input name the value G: the rule the
\* constructor made has it, the rule of that field passed to init has not.
C18_Witness ==
    /\ call.op = "change" /\ serverInitialized /\ formLocated
    /\ listeners[call.control] = 1
    /\ ownRules[1].formField = "name" /\ ownRules[1].value = "G"
    /\ Len(FormRules) > 0
    /\ FormRules[1].formField = "name" /\ FormRules[1].value = "Grant"

====
